---- MODULE Spec2Model ----
(***************************************************************************)
(* PTY helper of the Obsidian Agent Client plugin                          *)
(* (src/src/infrastructure/pty/pty-helper.py).                             *)
(*                                                                         *)
(* The helper is one single-threaded process: PtyHelper.run is a loop of   *)
(* select / read stdin / dispatch lines / read PTY / break test.  The      *)
(* model follows the loop with a program counter:                          *)
(*   "select"  at line 98, about to wait on the watched descriptors        *)
(*   "lines"   inside the line-splitting loop of lines 109-112             *)
(*   "pty"     at line 117, about to handle the PTY master                 *)
(*   "done"    the loop was left (break or exception); main() finished     *)
(* The child process, the PTY and the parent are the environment.          *)
(*                                                                         *)
(* The parent's byte stream is a sequence of tokens: J stands for one       *)
(* complete piece of text (a JSON text or a malformed one), NL for the     *)
(* newline and SP for a blank.  What a J holds is an input of the step     *)
(* that decodes it (JsonKind), as the helper reads no text before that.    *)
(*                                                                         *)
(* Three specifications:                                                   *)
(*   Spec       the whole helper, from construction                        *)
(*   SpecPty    the output path of one Session with a longer child output *)
(*              (SpecPtyFair: the same with the loop kept running)         *)
(*   SpecChunk  the line loop applied to one stream under its chunkings   *)
(***************************************************************************)
EXTENDS Integers, Sequences, FiniteSets, TLC

(* ---------------- bounds of the model ---------------- *)

\* tokens the parent writes to the helper's stdin in one behaviour
MaxInput == 6
\* tokens returned by one os.read of stdin
MaxChunk == 3
\* tokens of one line (the newline not counted)
MaxLine == 2
\* bytes written to the slave side of one Session's PTY
MaxOut == 1
\* the same, when the output path of one Session is followed on its own
MaxBytes == 3
\* tokens of a stream whose dispatch is compared over its chunkings
MaxStream == 6

(* ---------------- values ---------------- *)

\* Optional[int] None of master_fd and pid; real pids and descriptors are >= 1
None == 0

SP == "SP"
NL == "NL"

J == "J"
Tok == {J, SP, NL}

\* What a piece of text holds: an object whose "type" is one of the four
\* commands; an object with another or no "type" ("other"); a JSON value that
\* is no object ("scalar": 42, null, [1], "x"); a text json.loads rejects with
\* JSONDecodeError ("bad"); a text on which json.loads raises something else
\* ("deep": RecursionError on thousands of nested brackets, ValueError on an
\* integer literal beyond the digit limit).
JsonKind == {"spawn", "write", "resize", "kill", "other", "scalar", "bad", "deep"}

\* cols / rows values of a resize command; struct.pack('HHHH', ...) takes 0..65535
UShortMax == 65535
Dims == {80, UShortMax + 1}
InRange(v) == v >= 0 /\ v <= UShortMax

VARIABLES
    master_fd,   \* PtyHelper.master_fd: None or the Session whose PTY master it is
    pid,         \* PtyHelper.pid: None or the Session whose child it is
    running,     \* PtyHelper.running
    buffer,      \* run()'s line buffer
    rdPty,       \* the PTY master select() reported readable (None: none)
    pc,          \* position in run()
    exitStatus,  \* exit status of the helper once pc = "done", -1 before
    out,         \* the events handed to _send, in order
    op,          \* the operation the last step performed and its outcome
    nread,       \* tokens read from stdin so far
    nspawn,      \* Sessions created so far
    child,       \* the child of the latest Session
    autoReap,    \* SIGCHLD is ignored: the kernel reaps children itself
    slaveOpen,   \* some process holds the slave side of the latest PTY open
    ptyBuf,      \* bytes waiting in the latest PTY master
    produced,    \* bytes written to the slave side of the latest PTY
    feed         \* a stream fed chunk by chunk to the line loop (SpecChunk only)

vars == <<master_fd, pid, running, buffer, rdPty, pc, exitStatus, out, op,
          nread, nspawn, child, autoReap, slaveOpen, ptyBuf, produced, feed>>

helperVars == <<master_fd, pid, running>>
envVars == <<child, slaveOpen, ptyBuf, produced, nspawn>>

(* ---------------- strings ---------------- *)

\* index of the first newline of s, 0 when there is none
RECURSIVE FirstNL(_, _)
FirstNL(s, i) ==
    IF i > Len(s) THEN 0
    ELSE IF s[i] = NL THEN i ELSE FirstNL(s, i + 1)

HasLine(s) == FirstNL(s, 1) # 0

\* line, rest = s.split('\n', 1)
SplitLine(s) ==
    LET i == FirstNL(s, 1)
    IN  [line |-> SubSeq(s, 1, i - 1), rest |-> SubSeq(s, i + 1, Len(s))]

\* str.strip(): leading and trailing blanks removed
RECURSIVE LStrip(_)
LStrip(s) == IF s # <<>> /\ Head(s) = SP THEN LStrip(Tail(s)) ELSE s

RECURSIVE RStrip(_)
RStrip(s) ==
    IF s # <<>> /\ s[Len(s)] = SP THEN RStrip(SubSeq(s, 1, Len(s) - 1)) ELSE s

Strip(s) == RStrip(LStrip(s))

\* length of the longest line of s, the unfinished last one included
RECURSIVE LongestLine(_)
LongestLine(s) ==
    IF HasLine(s)
    THEN LET sp == SplitLine(s)
             n == LongestLine(sp.rest)
         IN  IF Len(sp.line) > n THEN Len(sp.line) ELSE n
    ELSE Len(s)

(* ---------------- Command Decoder ---------------- *)

\* json.loads(line), lines 136-140, on a line whose first piece of text
\* holds k: blanks around the text are skipped; the first text decides
\* whether json.loads raises, and anything after a well-formed text is
\* JSONDecodeError "Extra data".
\* Result: the command type, "other", "scalar", "invalid" (JSONDecodeError)
\* or "fault" (another exception, which line 138 does not catch).
Decode(line, k) ==
    LET t == Strip(line)
    IN  IF t = <<>> THEN "invalid"
        ELSE IF k = "bad" THEN "invalid"
        ELSE IF k = "deep" THEN "fault"
        ELSE IF Len(t) > 1 THEN "invalid"
        ELSE k

(* ---------------- events ---------------- *)

Spawned(s) == [type |-> "spawned", sid |-> s]
Output(s, d) == [type |-> "output", sid |-> s, data |-> d]
\* how = "reaped": the code computed from the wait status (lines 166-172);
\* how = "lookup": code -1 after ChildProcessError (line 176)
Exit(s, h) == [type |-> "exit", sid |-> s, how |-> h]
Error(m) == [type |-> "error", message |-> m]
Killed == [type |-> "killed"]

\* _send, lines 180-186
Send(msg) == out' = Append(out, msg)

(* ---------------- the operating system ---------------- *)

\* (a fault of waitpid handling: every poll of a running child counts as reaped)
WaitPidEager(c) == IF c = "gone" THEN "lookup" ELSE "reaped"

\* os.waitpid(pid, WNOHANG) on the recorded child, line 164:
\* "alive" is the return value (0, 0), "reaped" a return with pid != 0,
\* "lookup" is ChildProcessError.
WaitPid(c) ==
    CASE c \in {"alive", "exec_failed"} -> "alive"
      [] c = "zombie" -> "reaped"
      [] OTHER -> "lookup"

\* os.kill(pid, SIGTERM), line 79: a reaped child is ProcessLookupError
\* ("esrch"); a child whose program changed its credentials may refuse the
\* signal with PermissionError ("eperm").
KillResults(c) ==
    CASE c \in {"alive", "zombie"} -> {"ok", "eperm"}
      [] c = "exec_failed" -> {"ok"}
      [] OTHER -> {"esrch"}

\* select() reports the PTY master readable: bytes are waiting, or every
\* holder of the slave side has closed it (hang-up)
PtyReadable == ptyBuf # <<>> \/ ~slaveOpen

(* ---------------- the line loop as a function of the chunks ---------------- *)

\* The part of run() that decides which lines are dispatched, lines 103-112
\* and 130-132, on a record of the fields it reads: the line buffer, pid,
\* running, the loop position and the commands dispatched so far.  The
\* texts of these streams say what they hold ("spawn", "kill"); pty.fork and
\* os.kill succeed and the child neither writes nor ends.
StreamTok == {"spawn", "kill", SP, NL}

Start == [buffer |-> <<>>, pid |-> None, running |-> FALSE, pc |-> "select", log |-> <<>>]

\* _handle_command on a non-blank line, lines 134-158, with spawn() lines
\* 54-55 and kill() line 82
HandleLine(st, line) ==
    LET t == Decode(line, Head(Strip(line)))
        logged == [st EXCEPT !.log = Append(@, t)]
    IN  CASE t = "spawn" -> [logged EXCEPT !.pid = Len(logged.log), !.running = TRUE]
          [] t = "kill" -> [logged EXCEPT !.running = FALSE]
          [] OTHER -> logged

\* the while loop of lines 109-112
RECURSIVE Lines(_)
Lines(st) ==
    IF ~HasLine(st.buffer) THEN st
    ELSE LET sp == SplitLine(st.buffer)
             rest == [st EXCEPT !.buffer = sp.rest]
         IN  Lines(IF Strip(sp.line) = <<>> THEN rest ELSE HandleLine(rest, sp.line))

\* one iteration of run() that reads chunk c: lines 105-112, then the break
\* test of lines 130-132
FeedOne(st, c) ==
    LET d == Lines([st EXCEPT !.buffer = @ \o c])
    IN  [d EXCEPT !.pc = IF d.pid # None /\ ~d.running THEN "done" ELSE "select"]

\* no stream is being fed
NoFeed == [stream |-> <<>>, pos |-> 0, st |-> Start]

(* ---------------- leaving the loop ---------------- *)

\* break (lines 100, 107, 114, 132): run() returns, main() returns
Break == pc' = "done" /\ exitStatus' = 0

\* an exception that run() does not catch: main() lines 200-202
Fault == pc' = "done" /\ exitStatus' = 1

Init ==
    /\ master_fd = None
    /\ pid = None
    /\ running = FALSE
    /\ buffer = <<>>
    /\ rdPty = None
    /\ pc = "select"
    /\ exitStatus = -1
    /\ out = <<>>
    /\ op = [name |-> "init", res |-> "-"]
    /\ nread = 0
    /\ nspawn = 0
    /\ child = "none"
    /\ autoReap \in BOOLEAN
    /\ slaveOpen = FALSE
    /\ ptyBuf = <<>>
    /\ produced = <<>>
    /\ feed = NoFeed

(* ---------------- run(): select and the parent's stream ---------------- *)

\* lines 93-98: the watched set and the readable PTY master
Selected == rdPty' = IF master_fd # None /\ PtyReadable THEN master_fd ELSE None

\* sequences over Tok of length 1..n
Chunks(n) == UNION {[1..k -> Tok] : k \in 1..n}

\* lines 103-108: stdin readable, a chunk is read and appended to the buffer
StdinChunk ==
    /\ pc = "select"
    /\ \E c \in Chunks(MaxChunk) :
          /\ nread + Len(c) <= MaxInput
          /\ LongestLine(buffer \o c) <= MaxLine
          /\ buffer' = buffer \o c
          /\ nread' = nread + Len(c)
    /\ Selected
    /\ pc' = "lines"
    /\ op' = [name |-> "chunk", res |-> "-"]
    /\ UNCHANGED <<helperVars, exitStatus, out, envVars, autoReap, feed>>

\* (a fault of the read: an empty read is taken for "nothing to read")
StdinEOFIgnored ==
    /\ pc = "select"
    /\ Selected
    /\ pc' = "pty"
    /\ op' = [name |-> "stdin", res |-> "eof"]
    /\ UNCHANGED <<helperVars, buffer, exitStatus, out, nread, envVars, autoReap, feed>>

\* lines 106-107: empty read, the parent closed the channel
StdinEOF ==
    /\ pc = "select"
    /\ Selected
    /\ Break
    /\ op' = [name |-> "stdin", res |-> "eof"]
    /\ UNCHANGED <<helperVars, buffer, out, nread, envVars, autoReap, feed>>

\* lines 113-114: os.read(stdin) raises OSError
StdinError ==
    /\ pc = "select"
    /\ Selected
    /\ Break
    /\ op' = [name |-> "stdin", res |-> "oserror"]
    /\ UNCHANGED <<helperVars, buffer, out, nread, envVars, autoReap, feed>>

\* line 103 false: stdin is not readable (PTY activity or the 50 ms timeout)
StdinIdle ==
    /\ pc = "select"
    /\ Selected
    /\ pc' = "pty"
    /\ op' = [name |-> "stdin", res |-> "idle"]
    /\ UNCHANGED <<helperVars, buffer, exitStatus, out, nread, envVars, autoReap, feed>>

\* line 109 false: no complete line is left in the buffer
LinesDone ==
    /\ pc = "lines"
    /\ ~HasLine(buffer)
    /\ pc' = "pty"
    /\ op' = [name |-> "lines", res |-> "done"]
    /\ UNCHANGED <<helperVars, buffer, rdPty, exitStatus, out, nread, envVars, autoReap, feed>>

\* the line lines 110-112 are about to handle
AtLine == pc = "lines" /\ HasLine(buffer)
Line == SplitLine(buffer).line
Consume == buffer' = SplitLine(buffer).rest

\* line 111 false: a blank line is dropped
BlankLine ==
    /\ AtLine
    /\ Strip(Line) = <<>>
    /\ Consume
    /\ op' = [name |-> "blank", res |-> "-"]
    /\ UNCHANGED <<helperVars, rdPty, pc, exitStatus, out, nread, envVars, autoReap, feed>>

\* line 112 with a command of type t
Dispatch(t) ==
    /\ AtLine
    /\ Strip(Line) # <<>>
    /\ \E k \in JsonKind : Decode(Line, k) = t
    /\ Consume

(* ---------------- _handle_command and the Process Controller ---------------- *)

\* lines 138-140: JSONDecodeError
DispatchInvalid ==
    /\ Dispatch("invalid")
    /\ Send(Error("Invalid JSON"))
    /\ op' = [name |-> "invalid", res |-> "-"]
    /\ UNCHANGED <<helperVars, rdPty, pc, exitStatus, nread, envVars, autoReap, feed>>

\* line 137 raising anything but JSONDecodeError: nothing in run() catches it
DispatchFault ==
    /\ Dispatch("fault")
    /\ Fault
    /\ op' = [name |-> "decode", res |-> "fault"]
    /\ UNCHANGED <<helperVars, rdPty, out, nread, envVars, autoReap, feed>>

\* line 142 on a decoded value without .get: AttributeError
DispatchScalar ==
    /\ Dispatch("scalar")
    /\ Fault
    /\ op' = [name |-> "scalar", res |-> "fault"]
    /\ UNCHANGED <<helperVars, rdPty, out, nread, envVars, autoReap, feed>>

\* lines 157-158
DispatchUnknown ==
    /\ Dispatch("other")
    /\ Send(Error("Unknown command"))
    /\ op' = [name |-> "unknown", res |-> "-"]
    /\ UNCHANGED <<helperVars, rdPty, pc, exitStatus, nread, envVars, autoReap, feed>>

\* spawn(), lines 39-56, in the helper: pty.fork() either raises OSError
\* (no PTY, no process: the assignment of line 43 does not happen and the
\* exception reaches line 113) or returns the child and the PTY master.
\* Before the fork, line 41 raises TypeError when "env" is no mapping
\* ("typeerror"), which nothing in run() catches.
\* In the child, a failing execvpe ("noexec") raises OSError in the forked
\* copy of the helper, which leaves its own loop at line 113 and ends
\* (child state "exec_failed"); "forked" is a child that runs the program.
\* (a fault of spawn: the parent records the Session and reports nothing)
SpawnParentSilent(s) ==
    /\ running' = TRUE
    /\ UNCHANGED out

\* lines 53-56, the parent after a fork that returned Session s
SpawnParent(s) ==
    /\ running' = TRUE
    /\ Send(Spawned(s))

DispatchSpawn ==
    /\ Dispatch("spawn")
    /\ \E r \in {"forked", "noexec", "oserror", "typeerror"} :
          /\ op' = [name |-> "spawn", res |-> r]
          /\ IF r = "typeerror"
             THEN /\ Fault
                  /\ UNCHANGED <<helperVars, out, envVars>>
             ELSE IF r = "oserror"
             THEN /\ Break
                  /\ UNCHANGED <<helperVars, out, envVars>>
             ELSE /\ nspawn' = nspawn + 1
                  /\ pid' = nspawn + 1
                  /\ master_fd' = nspawn + 1
                  /\ SpawnParent(nspawn + 1)
                  /\ child' = IF r = "forked" THEN "alive" ELSE "exec_failed"
                  /\ slaveOpen' = TRUE
                  /\ ptyBuf' = <<>>
                  /\ produced' = <<>>
                  /\ UNCHANGED <<pc, exitStatus>>
    /\ UNCHANGED <<rdPty, nread, autoReap, feed>>

\* resize(), lines 58-65: struct.pack raises struct.error (no OSError) on a
\* value outside 0..65535; the ioctl may raise OSError, which is dropped
DispatchResize ==
    /\ Dispatch("resize")
    /\ \E cols \in Dims, rows \in Dims, io \in {"ok", "oserror"} :
          IF master_fd = None
          THEN /\ op' = [name |-> "resize", res |-> "none"]
               /\ UNCHANGED <<pc, exitStatus>>
          ELSE IF ~(InRange(cols) /\ InRange(rows))
          THEN /\ op' = [name |-> "resize", res |-> "range"]
               /\ Fault
          ELSE /\ op' = [name |-> "resize", res |-> io]
               /\ UNCHANGED <<pc, exitStatus>>
    /\ UNCHANGED <<helperVars, rdPty, out, nread, envVars, autoReap, feed>>

\* the byte the terminal echoes back to the master for written input
EchoByte == 0

\* os.write(master_fd, ...) succeeded, line 71: with ECHO set (the default of
\* a new PTY) the line discipline queues the input on the master as well,
\* whether or not a process still holds the slave side
Written(echo) ==
    ptyBuf' = IF echo THEN Append(ptyBuf, EchoByte) ELSE ptyBuf

\* (a fault of write: the failure is dropped, as resize drops its own)
WriteFailedSilent == UNCHANGED out

\* line 73
WriteFailed == Send(Error("Write failed"))

\* write(), lines 67-73: data.encode raises UnicodeEncodeError (no OSError)
\* on a lone surrogate; os.write may raise OSError, which is reported
DispatchWrite ==
    /\ Dispatch("write")
    /\ \E data \in {"text", "surrogate"}, io \in {"ok", "echo", "oserror"} :
          IF master_fd = None
          THEN /\ op' = [name |-> "write", res |-> "none"]
               /\ UNCHANGED <<pc, exitStatus, out, ptyBuf>>
          ELSE IF data = "surrogate"
          THEN /\ op' = [name |-> "write", res |-> "encode"]
               /\ Fault
               /\ UNCHANGED <<out, ptyBuf>>
          ELSE /\ op' = [name |-> "write", res |-> io]
               /\ IF io = "oserror"
                  THEN WriteFailed /\ UNCHANGED ptyBuf
                  ELSE Written(io = "echo") /\ UNCHANGED out
               /\ UNCHANGED <<pc, exitStatus>>
    /\ UNCHANGED <<helperVars, rdPty, nread, nspawn, child, slaveOpen, produced, autoReap, feed>>

\* the outcomes of line 79 in the current state; "none" when no pid is recorded
KillOutcomes == IF pid = None THEN {"none"} ELSE KillResults(child)

\* (a fault of kill: the flag is cleared and nothing is reported)
KillBodySilent(r) ==
    /\ running' = (r = "eperm" /\ running)
    /\ UNCHANGED <<master_fd, pid, out>>

\* kill(), lines 75-83, with os.kill ending as r: PermissionError is not
\* caught by line 80 and leaves kill() before lines 82-83
KillBody(r) ==
    IF r = "eperm"
    THEN UNCHANGED <<helperVars, out>>
    ELSE /\ running' = FALSE
         /\ Send(Killed)
         /\ UNCHANGED <<master_fd, pid>>

\* line 156
DispatchKill ==
    /\ Dispatch("kill")
    /\ \E r \in KillOutcomes :
          /\ op' = [name |-> "kill", res |-> r]
          /\ KillBody(r)
          /\ IF r = "eperm" THEN Break ELSE UNCHANGED <<pc, exitStatus>>
    /\ UNCHANGED <<rdPty, nread, envVars, autoReap, feed>>

\* main(), lines 198-199: KeyboardInterrupt during run()
Interrupt ==
    /\ pc # "done"
    /\ \E r \in KillOutcomes :
          /\ op' = [name |-> "interrupt", res |-> r]
          /\ KillBody(r)
          /\ IF r = "eperm" THEN Fault ELSE Break
    /\ UNCHANGED <<buffer, rdPty, nread, envVars, autoReap, feed>>

(* ---------------- run(): the PTY master and the break test ---------------- *)

\* lines 130-132, then back to line 92
LoopEnd ==
    /\ rdPty' = None
    /\ IF pid' # None /\ ~running' THEN Break ELSE pc' = "select" /\ UNCHANGED exitStatus

\* _check_exit(), lines 160-178, with waitpid ending as w
CheckExit(w) ==
    IF pid # None /\ w \in {"reaped", "lookup"}
    THEN /\ Send(Exit(pid, w))
         /\ running' = FALSE
         /\ pid' = None
         /\ child' = "gone"
         /\ UNCHANGED master_fd
    ELSE UNCHANGED <<helperVars, out, child>>

\* line 117
PtySelected == master_fd # None /\ master_fd = rdPty

\* line 117 false
PtySkip ==
    /\ pc = "pty"
    /\ ~PtySelected
    /\ op' = [name |-> "pty", res |-> "skip"]
    /\ UNCHANGED <<helperVars, buffer, out, nread, envVars, autoReap, feed>>
    /\ LoopEnd

\* The bytes of a PTY are numbers.  The child writes a UTF-8 text in which a
\* two-byte character (a lead byte and its continuation byte) is followed by
\* a one-byte character, and so on: byte k of a Session is a lead byte when
\* k % 3 = 1, the continuation of byte k - 1 when k % 3 = 2, and a one-byte
\* character otherwise (the echoed byte is one too).
IsLead(b) == b % 3 = 1
IsCont(b) == b % 3 = 2

\* the character U+FFFD that errors='replace' puts for an undecodable byte
Replacement == -1

\* data.decode('utf-8', errors='replace'), line 123, on the bytes of ONE
\* read: a lead byte followed by its continuation is one character (named
\* by its lead byte); a lead byte without it, or a continuation byte without
\* its lead, is replaced; a one-byte character is itself.
RECURSIVE Utf8Decode(_)
Utf8Decode(bs) ==
    IF bs = <<>> THEN <<>>
    ELSE IF IsLead(bs[1]) /\ Len(bs) >= 2 /\ bs[2] = bs[1] + 1
         THEN <<bs[1]>> \o Utf8Decode(SubSeq(bs, 3, Len(bs)))
    ELSE IF IsLead(bs[1]) \/ IsCont(bs[1])
         THEN <<Replacement>> \o Utf8Decode(Tail(bs))
    ELSE <<bs[1]>> \o Utf8Decode(Tail(bs))

\* lines 119-124: the waiting bytes (fewer than the 16384 asked for) are
\* read, decoded on their own and sent
PtyData ==
    /\ pc = "pty"
    /\ PtySelected
    /\ ptyBuf # <<>>
    /\ Send(Output(master_fd, Utf8Decode(ptyBuf)))
    /\ ptyBuf' = <<>>
    /\ op' = [name |-> "pty", res |-> "data"]
    /\ UNCHANGED <<helperVars, buffer, nread, nspawn, child, slaveOpen, produced, autoReap, feed>>
    /\ LoopEnd

\* lines 125-128: nothing is waiting and the slave side is closed: the read
\* is empty or fails with EIO, by platform. _check_exit runs in each case.
PtyEmpty ==
    /\ pc = "pty"
    /\ PtySelected
    /\ ptyBuf = <<>>
    /\ \E k \in {"eof", "oserror"} :
          op' = [name |-> "check_exit", res |-> k, wait |-> IF pid = None THEN "none" ELSE WaitPid(child)]
    /\ CheckExit(WaitPid(child))
    /\ UNCHANGED <<buffer, nread, nspawn, slaveOpen, ptyBuf, produced, autoReap, feed>>
    /\ LoopEnd

(* ---------------- the child and the PTY ---------------- *)

EnvStep ==
    /\ pc # "done"
    /\ op' = [name |-> "env", res |-> "-"]
    /\ UNCHANGED <<helperVars, buffer, rdPty, pc, exitStatus, out, nread, nspawn, autoReap, feed>>

\* a holder of the slave side writes one byte, the next of at most n; bytes
\* are numbered in order
ChildWriteUpTo(n) ==
    /\ EnvStep
    /\ slaveOpen
    /\ child # "exec_failed"
    /\ Len(produced) < n
    /\ produced' = Append(produced, Len(produced) + 1)
    /\ ptyBuf' = Append(ptyBuf, Len(produced) + 1)
    /\ UNCHANGED <<child, slaveOpen>>

ChildWrite == ChildWriteUpTo(MaxOut)

\* the child terminates; its descendants may keep the slave side open
ChildExit ==
    /\ EnvStep
    /\ child \in {"alive", "exec_failed"}
    /\ child' = IF autoReap THEN "gone" ELSE "zombie"
    /\ slaveOpen' = IF child = "exec_failed" THEN FALSE ELSE slaveOpen
    /\ UNCHANGED <<ptyBuf, produced>>

\* the last holder of the slave side closes it
SlaveClose ==
    /\ EnvStep
    /\ slaveOpen
    /\ slaveOpen' = FALSE
    /\ UNCHANGED <<child, ptyBuf, produced>>

Next ==
    \/ StdinChunk
    \/ StdinEOF
    \/ StdinError
    \/ StdinIdle
    \/ LinesDone
    \/ BlankLine
    \/ DispatchInvalid
    \/ DispatchFault
    \/ DispatchScalar
    \/ DispatchUnknown
    \/ DispatchSpawn
    \/ DispatchResize
    \/ DispatchWrite
    \/ DispatchKill
    \/ Interrupt
    \/ PtySkip
    \/ PtyData
    \/ PtyEmpty
    \/ ChildWrite
    \/ ChildExit
    \/ SlaveClose

Spec == Init /\ [][Next]_vars

(* ---------------- the output path of one Session ---------------- *)

\* The helper right after the first line of the parent's stream, a spawn,
\* started a child that runs its program (lines 53-56 done, line 109 next).
InitPty ==
    /\ master_fd = 1
    /\ pid = 1
    /\ running = TRUE
    /\ buffer = <<>>
    /\ rdPty = None
    /\ pc = "lines"
    /\ exitStatus = -1
    /\ out = <<Spawned(1)>>
    /\ op = [name |-> "spawn", res |-> "forked"]
    /\ nread = 2
    /\ nspawn = 1
    /\ child = "alive"
    /\ autoReap \in BOOLEAN
    /\ slaveOpen = TRUE
    /\ ptyBuf = <<>>
    /\ produced = <<>>
    /\ feed = NoFeed

ChildWriteMore == ChildWriteUpTo(MaxBytes)

\* one step of run() while the parent sends nothing and keeps its end open
LoopStep ==
    \/ LinesDone
    \/ StdinIdle
    \/ PtySkip
    \/ PtyData
    \/ PtyEmpty

NextPty ==
    \/ LoopStep
    \/ ChildWriteMore
    \/ ChildExit
    \/ SlaveClose

SpecPty == InitPty /\ [][NextPty]_vars

\* select() returns after 50 ms at the latest (line 98) and no step of the
\* loop blocks: the helper keeps taking steps.  Nothing is asked of the child
\* or of the holders of the slave side.
SpecPtyFair == SpecPty /\ WF_vars(LoopStep)

(* ---------------- a stream and its chunkings ---------------- *)

Streams == UNION {[1..k -> StreamTok] : k \in 0..MaxStream}

\* the helper as constructed, about to read one of the streams
InitChunk ==
    /\ master_fd = None
    /\ pid = None
    /\ running = FALSE
    /\ buffer = <<>>
    /\ rdPty = None
    /\ pc = "select"
    /\ exitStatus = -1
    /\ out = <<>>
    /\ op = [name |-> "init", res |-> "-"]
    /\ nread = 0
    /\ nspawn = 0
    /\ child = "none"
    /\ autoReap = FALSE
    /\ slaveOpen = FALSE
    /\ ptyBuf = <<>>
    /\ produced = <<>>
    /\ \E s \in Streams : feed = [stream |-> s, pos |-> 0, st |-> Start]

\* os.read returns the next n tokens of the stream and the iteration runs
FeedChunk ==
    /\ feed.st.pc # "done"
    /\ \E n \in 1..MaxChunk :
          /\ feed.pos + n <= Len(feed.stream)
          /\ feed' = [feed EXCEPT
                        !.pos = @ + n,
                        !.st = FeedOne(@, SubSeq(feed.stream, feed.pos + 1, feed.pos + n))]
    /\ UNCHANGED <<helperVars, buffer, rdPty, pc, exitStatus, out, op, nread, envVars, autoReap>>

NextChunk == FeedChunk

SpecChunk == InitChunk /\ [][NextChunk]_vars

(* ---------------- properties ---------------- *)

Last(s) == s[Len(s)]

\* the step sent an event of type t
Sent(t) == Len(out') = Len(out) + 1 /\ Last(out').type = t

\* positions of out (or of a longer log) holding an event of type t
Of(log, t) == {i \in DOMAIN log : log[i].type = t}

\* C1: a Session has at most one exit event; an exit event is sent only by an
\* exit check on the recorded child when that child has terminated (waitpid
\* reaped it, or failed with ChildProcessError); an exit check on a child that
\* is still running sends nothing and changes no field of the helper.
C1_ExitOnceAndOnlyWhenTerminated ==
    [][ /\ \A i, j \in Of(out', "exit") : out'[i].sid = out'[j].sid => i = j
        /\ Sent("exit") =>
              /\ op'.name = "check_exit"
              /\ pid # None
              /\ Last(out').sid = pid
              /\ child \in {"zombie", "gone"}
              /\ Last(out').how = (IF child = "zombie" THEN "reaped" ELSE "lookup")
        /\ (op'.name = "check_exit" /\ pid # None /\ child \in {"alive", "exec_failed"}) =>
              UNCHANGED <<helperVars, out, child>>
      ]_vars

\* C1 witness: one Session's exit was reported, and an exit check has just
\* polled the still running child of the next Session
C1_Witness ==
    /\ Of(out, "exit") # {}
    /\ op.name = "check_exit"
    /\ op.wait = "alive"
    /\ pid # None

\* C2 (as claimed): no output event of a Session follows the exit event of
\* that Session in the log.
C2_NoOutputAfterExit ==
    \A i, j \in DOMAIN out :
        (i < j /\ out[i].type = "exit" /\ out[j].type = "output") => out[j].sid # out[i].sid

\* C3: every Session created by a spawn has exactly one spawned event, and
\* every output or exit event is preceded by the spawned event of its Session.
C3_SpawnedOnceAndFirst ==
    /\ \A s \in 1..nspawn : Cardinality({i \in DOMAIN out : out[i] = Spawned(s)}) = 1
    /\ Cardinality(Of(out, "spawned")) = nspawn
    /\ \A j \in DOMAIN out :
          out[j].type \in {"output", "exit"} =>
              \E i \in 1..(j - 1) : out[i] = Spawned(out[j].sid)

\* C3 witness: a Session with its spawned, output and exit events
C3_Witness ==
    \E i, j, k \in DOMAIN out :
        /\ i < j /\ j < k
        /\ out[i].type = "spawned"
        /\ out[j].type = "output" /\ out[j].sid = out[i].sid
        /\ out[k].type = "exit" /\ out[k].sid = out[i].sid

\* C4 (as claimed): every kill command dispatched sends exactly one killed
\* event and nothing else, whatever os.kill does.
C4_KillAlwaysKilled ==
    [][ op'.name = "kill" => out' = Append(out, Killed) ]_vars

\* C5 (as claimed): every non-blank line whose decoding fails sends exactly
\* one "Invalid JSON" error event, leaves pid, master_fd and running as they
\* are and stays in the loop.
C5_UndecodableLineOneError ==
    [][ op'.name \in {"invalid", "decode"} =>
            /\ out' = Append(out, Error("Invalid JSON"))
            /\ UNCHANGED helperVars
            /\ pc' = "lines"
      ]_vars

\* C6 (as claimed): every line that decodes to something other than one of
\* the four commands (unknown or missing type, or no object) sends exactly
\* one "Unknown command" error event, leaves the Session as it is and stays
\* in the loop.
C6_UnknownCommandOneError ==
    [][ op'.name \in {"unknown", "scalar"} =>
            /\ out' = Append(out, Error("Unknown command"))
            /\ UNCHANGED helperVars
            /\ pc' = "lines"
      ]_vars

\* C7 (as claimed): a spawn that fails (pty.fork raises, or the program
\* cannot be executed in the child) sends an error event and no spawned
\* event, and the loop goes on.
C7_SpawnFailureReported ==
    [][ (op'.name = "spawn" /\ op'.res \in {"oserror", "noexec"}) =>
            /\ Sent("error")
            /\ pc' = "lines"
      ]_vars

\* C8: a write command whose os.write fails sends exactly one "Write failed"
\* error event, leaves pid, master_fd and running as they are and stays in
\* the loop, where the next line is handled.
C8_WriteFailureKeepsSession ==
    [][ (op'.name = "write" /\ op'.res = "oserror") =>
            /\ out' = Append(out, Error("Write failed"))
            /\ UNCHANGED helperVars
            /\ master_fd # None
            /\ pc' = "lines"
            /\ exitStatus' = -1
      ]_vars

\* C8 witness: a write was attempted on the PTY after an earlier write of
\* the same Session had failed
C8_Witness ==
    /\ op.name = "write"
    /\ op.res \in {"ok", "echo", "oserror"}
    /\ \E i \in DOMAIN out :
          /\ out[i] = Error("Write failed")
          /\ (op.res = "oserror" => i < Len(out))
    /\ pid # None

\* C9 (as claimed): a write command handled while no Session is present (no
\* pid recorded: never spawned, or the exit was reported) attempts no write,
\* sends nothing and changes nothing of the helper or the PTY.
C9_WriteWithoutSessionNoOp ==
    [][ (op'.name = "write" /\ pid = None) =>
            /\ op'.res = "none"
            /\ UNCHANGED <<helperVars, out, ptyBuf, pc, exitStatus>>
      ]_vars

\* C10 (as claimed): a resize command sends nothing, leaves pid and running
\* as they are and stays in the loop, in every Session state.
C10_ResizeSilentAndHarmless ==
    [][ op'.name = "resize" =>
            /\ UNCHANGED <<out, pid, running>>
            /\ pc' = "lines"
      ]_vars

\* C11 (as claimed): a spawn command handled while a child pid is recorded
\* creates no child, leaves the recorded pid and PTY master descriptor as
\* they are and sends no spawned event.
C11_SecondSpawnIgnored ==
    [][ (op'.name = "spawn" /\ pid # None) =>
            /\ UNCHANGED <<pid, master_fd, nspawn, child>>
            /\ ~Sent("spawned")
      ]_vars

\* the steps that handle a line json.loads decoded
Requests == {"spawn", "write", "resize", "kill", "unknown", "scalar"}

Leaves == pc # "done" /\ pc' = "done"

\* C13 (as claimed): the loop is left only on an empty read of stdin, on a
\* read error of stdin, or because of a kill handled while a pid was recorded
\* (the kill step itself, or the break test that finds the pid recorded and
\* the running flag cleared); the step that reports an exit does not leave
\* the loop.  A KeyboardInterrupt, which no command causes, is left aside.
C13_LoopEndsForThreeReasons ==
    [][ /\ Leaves =>
              \/ op'.name = "stdin" /\ op'.res \in {"eof", "oserror"}
              \/ op'.name = "kill" /\ pid # None
              \/ op'.name = "interrupt"
              \/ /\ op'.name \in {"pty", "check_exit"}
                 /\ pid' # None /\ ~running'
                 /\ Of(out', "killed") # {}
        /\ Sent("exit") => pc' # "done"
      ]_vars

\* C14: the step that reads the end of the parent's stream leaves the loop
\* with exit status 0, sends nothing, dispatches nothing (the buffer and the
\* fields of the helper stay as they are); once the loop is left no event is
\* added and nothing of the helper changes.
C14_EofEndsLoopQuietly ==
    [][ /\ (op'.name = "stdin" /\ op'.res = "eof") =>
              /\ pc' = "done"
              /\ exitStatus' = 0
              /\ UNCHANGED <<out, helperVars, buffer>>
        /\ pc = "done" => UNCHANGED <<out, helperVars, buffer, pc, exitStatus>>
      ]_vars

\* C14 witness: the end of the stream was read while the child was running,
\* output was waiting on the PTY and an unfinished line was in the buffer
C14_Witness ==
    /\ op = [name |-> "stdin", res |-> "eof"]
    /\ pc = "done"
    /\ exitStatus = 0
    /\ pid # None /\ running /\ child = "alive"
    /\ ptyBuf # <<>>
    /\ buffer # <<>>

\* the data of the output events of Session s in a log, concatenated
RECURSIVE OutData(_, _)
OutData(log, s) ==
    IF log = <<>> THEN <<>>
    ELSE (IF Head(log).type = "output" /\ Head(log).sid = s THEN Head(log).data ELSE <<>>)
         \o OutData(Tail(log), s)

IsPrefix(a, b) == Len(a) <= Len(b) /\ a = SubSeq(b, 1, Len(a))

\* C15 (as claimed): the concatenated data of the output events of the
\* Session is a prefix of the text the child wrote (its bytes decoded as one
\* stream), and equals it once the exit event of the Session is in the log.
C15_OutputIsChildText ==
    /\ IsPrefix(OutData(out, nspawn), Utf8Decode(produced))
    /\ (\E i \in DOMAIN out : out[i].type = "exit" /\ out[i].sid = nspawn) =>
            OutData(out, nspawn) = Utf8Decode(produced)


\* the steps in which _handle_command is called with a line
Dispatched == Requests \cup {"invalid", "decode"}

\* C16 (as claimed): once a kill was handled with a pid recorded (the pid is
\* recorded and the running flag is cleared), no line is dispatched and no
\* spawned event is sent.
C16_NothingDispatchedAfterKill ==
    [][ (pid # None /\ ~running) =>
            /\ op'.name \notin Dispatched
            /\ ~Sent("spawned")
      ]_vars


\* C17 (as claimed): when the helper has left its loop at the break test
\* after a kill, and the child of the Session has terminated, the log holds
\* the killed event followed by the exit event of that Session.
C17_KilledChildExitReported ==
    (pc = "done" /\ op.name \in {"pty", "check_exit"} /\ child \in {"zombie", "gone"}) =>
        \E i, j \in DOMAIN out :
            /\ i < j
            /\ out[i] = Killed
            /\ out[j].type = "exit"
            /\ out[j].sid = nspawn

\* C18 (as claimed): while the loop keeps running, a recorded child that
\* has terminated leads to its exit being reported (the pid is cleared by
\* the step that sends the exit event), whether or not the PTY master
\* becomes readable.
C18_ExitSeenWithoutIO ==
    (pid # None /\ child \in {"zombie", "gone"}) ~> (pid = None)


\* C19 (as claimed): the step that reports an exit clears the pid and the
\* PTY master descriptor and leaves the running flag cleared, which are the
\* values of a helper that never spawned; the PTY master is then no longer
\* watched, and an exit check made while no pid is recorded sends nothing.
C19_ExitDestroysSession ==
    [][ /\ Sent("exit") => (pid' = None /\ master_fd' = None /\ ~running')
        /\ (op'.name = "check_exit" /\ pid = None) => UNCHANGED <<out, helperVars>>
      ]_vars

\* C20 (as claimed): when a stream has been read in chunks, or the loop was
\* left on the way, the commands dispatched are those dispatched when the
\* whole stream is read as one chunk.
C20_DispatchIgnoresChunking ==
    (feed.pos = Len(feed.stream) \/ feed.st.pc = "done") =>
        feed.st.log = FeedOne(Start, feed.stream).log

====
